---------------------------- MODULE Spec2Model ----------------------------
(***************************************************************************)
(* Model of the forester behaviour-tree runtime: the action keeper         *)
(* (runtime/action/keeper.rs), the builtin data actions                    *)
(* (runtime/action/builtin/data.rs), the blackboard they act on and the    *)
(* asynchronous task table of the runtime environment; and of the tree     *)
(* visualizer (gol/visualizer.rs): its import map and its graph builder.   *)
(***************************************************************************)
EXTENDS Integers, Sequences, FiniteSets, TLC

(***************************************************************************)
(* Bounds of the model.                                                    *)
(***************************************************************************)
\* integers stored in cells and passed as arguments are 0..MaxInt
MaxInt == 1
\* tasks a run may submit to the worker pool
MaxTasks == 2
\* threads ticking GenerateData concurrently
NumThreads == 3
\* leaves of the root Sequence
NumChildren == 3
\* import items in a file
MaxImports == 3
\* node statements the visualizer draws in a run
MaxGen == 8

\* highest positional slot the builtin actions read is 1 (find_or_ith(.., 1))
MaxArgs == 2

Keys == {"k1", "k2"}
Ints == 0..MaxInt

(***************************************************************************)
(* RtValue: a tagged value.  Only the integer, the string and the pointer   *)
(* variants are used; equality is structural.  A pointer names a cell of   *)
(* the blackboard.                                                         *)
(***************************************************************************)
IntV(i) == [t |-> "int", n |-> i, s |-> ""]
StrV(k) == [t |-> "str", n |-> 0, s |-> k]
PtrV(k) == [t |-> "ptr", n |-> 0, s |-> k]
NoV == [t |-> "none", n |-> 0, s |-> ""]
RtValues == {IntV(i) : i \in Ints} \cup {StrV(k) : k \in Keys}
Pointers == {PtrV(k) : k \in Keys}

(***************************************************************************)
(* TickResult and RuntimeError (runtime.rs).  A Tick is Ok(TickResult) or  *)
(* Err(RuntimeError); the error is kept by its kind.                       *)
(***************************************************************************)
Ok(r) == [ok |-> TRUE, v |-> r]
Err(kind) == [ok |-> FALSE, v |-> kind]
Success == Ok("Success")
Failure == Ok("Failure")
Running == Ok("Running")
\* RuntimeError::uex: the "unexpected" constructor
uex == Err("Unexpected")
\* RuntimeError::fail: the constructor the actions use for a bad argument
fail == Err("fail")
\* RuntimeError::BlackBoardError
bbErr == Err("BlackBoardError")

(***************************************************************************)
(* RtArgs: an ordered list of named arguments.                             *)
(***************************************************************************)
Arg(name, v) == [name |-> name, v |-> v]
\* the argument lists over the names and values, each name used once
ArgListsOf(names, values) ==
    LET A == {Arg(nm, v) : nm \in names, v \in values}
    IN {l \in UNION {[1..n -> A] : n \in 0..MaxArgs} :
           \A i, j \in 1..Len(l) : l[i].name = l[j].name => i = j}
ArgLists(names) == ArgListsOf(names, RtValues)

\* RtArgs::first: the value of the argument at position 0
first(args) == IF Len(args) = 0 THEN NoV ELSE args[1].v

\* RtArgs::find_or_ith: the argument with the name, else the one at slot i
find_or_ith(args, name, i) ==
    LET named == {j \in 1..Len(args) : args[j].name = name}
    IN IF named # {}
       THEN args[CHOOSE j \in named : \A l \in named : j <= l].v
       ELSE IF i + 1 <= Len(args) THEN args[i + 1].v ELSE NoV

\* RtValueCast::str: the string of a string value, None otherwise
str(v) == IF v.t = "str" THEN v.s ELSE ""

(***************************************************************************)
(* BlackBoard: key -> cell; a cell is Absent, Unlocked(v) or Locked(v).    *)
(* Every operation yields the result and the blackboard after it.          *)
(***************************************************************************)
AbsentCell == [st |-> "Absent", v |-> NoV]
Unlocked(v) == [st |-> "Unlocked", v |-> v]
Locked(v) == [st |-> "Locked", v |-> v]
Cells == {AbsentCell} \cup {Unlocked(v) : v \in RtValues}
                      \cup {Locked(v) : v \in RtValues}

bb_get(b, key) == b[key].v

bb_is_locked(b, key) == b[key].st = "Locked"

bb_put(b, key, v) ==
    IF b[key].st = "Locked"
    THEN [err |-> TRUE, bb |-> b]
    ELSE [err |-> FALSE, bb |-> [b EXCEPT ![key] = Unlocked(v)]]

bb_lock(b, key) ==
    IF b[key].st = "Unlocked"
    THEN [err |-> FALSE, bb |-> [b EXCEPT ![key] = Locked(b[key].v)]]
    ELSE [err |-> TRUE, bb |-> b]

bb_unlock(b, key) ==
    IF b[key].st = "Locked"
    THEN [err |-> FALSE, bb |-> [b EXCEPT ![key] = Unlocked(b[key].v)]]
    ELSE [err |-> TRUE, bb |-> b]

(***************************************************************************)
(* The builtin data actions (data.rs).  Each tick yields its Tick and the  *)
(* blackboard after it; `tick` is ctx.current_tick().                      *)
(***************************************************************************)
Out(res, b) == [res |-> res, bb |-> b]

\* LockUnlockBBKey::tick
LockUnlockTick_swallows_error(variant, args, b) ==
    LET v == first(args)
        key == str(v)
    IN IF v = NoV \/ key = "" THEN Out(fail, b)
       ELSE LET r == IF variant = "Lock" THEN bb_lock(b, key)
                                         ELSE bb_unlock(b, key)
            IN Out(Success, r.bb)

LockUnlockTick_both_lock(variant, args, b) ==
    LET v == first(args)
        key == str(v)
    IN IF v = NoV \/ key = "" THEN Out(fail, b)
       ELSE LET r == bb_lock(b, key)
            IN IF r.err THEN Out(bbErr, b) ELSE Out(Success, r.bb)

LockUnlockTick(variant, args, b) ==
    LET v == first(args)
        key == str(v)
    IN IF v = NoV \/ key = "" THEN Out(fail, b)
       ELSE LET r == IF variant = "Lock" THEN bb_lock(b, key)
                                         ELSE bb_unlock(b, key)
            IN IF r.err THEN Out(bbErr, b) ELSE Out(Success, r.bb)

\* StoreTick::tick
StoreTickTick_off_by_one(args, tick, b) ==
    LET v == first(args)
        k == str(v)
    IN IF v = NoV THEN Out(fail, b)
       ELSE IF k = "" THEN Out(Failure, b)
       ELSE LET r == bb_put(b, k, IntV(tick + 1))
            IN IF r.err THEN Out(bbErr, b) ELSE Out(Success, r.bb)

StoreTickTick(args, tick, b) ==
    LET v == first(args)
        k == str(v)
    IN IF v = NoV THEN Out(fail, b)
       ELSE IF k = "" THEN Out(Failure, b)
       ELSE LET r == bb_put(b, k, IntV(tick))
            IN IF r.err THEN Out(bbErr, b) ELSE Out(Success, r.bb)

\* RtValueCast::with_ptr: a pointer is replaced by the value of the cell it
\* names (an error when there is none); any other value is itself
with_ptr(v, b) ==
    IF v.t # "ptr" THEN [err |-> FALSE, v |-> v]
    ELSE IF b[v.s].st = "Absent" THEN [err |-> TRUE, v |-> NoV]
    ELSE [err |-> FALSE, v |-> bb_get(b, v.s)]

\* CheckEq::tick
CheckEqTick_mismatch_is_error(args, b) ==
    LET key == find_or_ith(args, "key", 0)
        expected == find_or_ith(args, "expected", 1)
        actual == with_ptr(key, b)
    IN IF key = NoV \/ expected = NoV THEN Out(fail, b)
       ELSE IF actual.err THEN Out(bbErr, b)
       ELSE IF actual.v = expected THEN Out(Success, b) ELSE Out(fail, b)

CheckEqTick(args, b) ==
    LET key == find_or_ith(args, "key", 0)
        expected == find_or_ith(args, "expected", 1)
        actual == with_ptr(key, b)
    IN IF key = NoV \/ expected = NoV THEN Out(fail, b)
       ELSE IF actual.err THEN Out(bbErr, b)
       ELSE IF actual.v = expected THEN Out(Success, b) ELSE Out(Failure, b)

\* the generator of GenerateData: a pure function of the cell's value
generator(v) == IF v.t = "int" THEN IntV((v.n + 1) % (MaxInt + 1)) ELSE v

\* GenerateData::tick
GenerateDataTick(args, b) ==
    LET kv == find_or_ith(args, "key", 0)
        key == str(kv)
        default == find_or_ith(args, "default", 1)
    IN IF kv = NoV \/ key = "" \/ default = NoV THEN Out(fail, b)
       ELSE LET curr == IF b[key].st = "Absent" THEN default
                                                ELSE bb_get(b, key)
                r == bb_put(b, key, generator(curr))
            IN IF r.err THEN Out(bbErr, b) ELSE Out(Success, r.bb)

\* StoreData::tick
StoreDataTick_ignores_put_error(args, b) ==
    LET kv == find_or_ith(args, "key", 0)
        key == str(kv)
        value == find_or_ith(args, "value", 1)
    IN IF kv = NoV \/ key = "" \/ value = NoV THEN Out(fail, b)
       ELSE Out(Success, bb_put(b, key, value).bb)

StoreDataTick_key_by_position(args, b) ==
    LET kv == first(args)
        key == str(kv)
        value == find_or_ith(args, "value", 1)
    IN IF kv = NoV \/ key = "" \/ value = NoV THEN Out(fail, b)
       ELSE LET r == bb_put(b, key, value)
            IN IF r.err THEN Out(bbErr, b) ELSE Out(Success, r.bb)

StoreDataTick(args, b) ==
    LET kv == find_or_ith(args, "key", 0)
        key == str(kv)
        value == find_or_ith(args, "value", 1)
    IN IF kv = NoV \/ key = "" \/ value = NoV THEN Out(fail, b)
       ELSE LET r == bb_put(b, key, value)
            IN IF r.err THEN Out(bbErr, b) ELSE Out(Success, r.bb)


(***************************************************************************)
(* State.                                                                  *)
(*   actions  ActionKeeper.actions: name -> registered action              *)
(*   tasks    RtEnv.tasks: name -> handle of the task in the table (0: no  *)
(*            entry)                                                       *)
(*   pool     the tasks submitted to the worker pool, by handle            *)
(*   bb       the blackboard                                               *)
(*   last     the last call made and what it returned                      *)
(*   thr      the threads ticking GenerateData, each with its position     *)
(*   mutex    the holder of the blackboard's mutex (0: free)               *)
(*   bb0      the blackboard the threads started from                      *)
(*   children the leaves of the root Sequence, each an action name with    *)
(*            its arguments                                                *)
(*   cursor   the Sequence's resumption cursor: the child that returned    *)
(*            Running (0: none)                                            *)
(*   visited  the children the last root tick ticked, in order             *)
(*   imp      the imports of a file and the ImportMap built from them      *)
(*   viz      the visualizer: the project, the id generator, the stack of  *)
(*            calls to draw and the graph drawn so far                     *)
(***************************************************************************)
VARIABLES actions, tasks, pool, bb, last, thr, mutex, bb0,
          children, cursor, visited, imp, viz

vars == <<actions, tasks, pool, bb, last, thr, mutex, bb0,
          children, cursor, visited, imp, viz>>
golVars == <<imp, viz>>
keeperVars == <<actions, tasks, pool>>
threadVars == <<thr, mutex, bb0>>
treeVars == <<children, cursor, visited>>

Names == {"a", "b"}
Impls == {"StoreData", "CheckEq"}
NoAction == [kind |-> "None", impl |-> ""]
Sync(impl) == [kind |-> "Sync", impl |-> impl]
Async(impl) == [kind |-> "Async", impl |-> impl]

EmptyBB == [k \in Keys |-> AbsentCell]
NoCall == [seq |-> 0, op |-> "none", name |-> "", key |-> "", obs |-> "",
           impl |-> "", res |-> Ok("none"), tid |-> 0, late |-> FALSE,
           tick |-> 0, args |-> <<>>]
\* no file is being imported, no project is being drawn
NoImport == [imports |-> <<>>, done |-> FALSE, map |-> <<>>]
NoViz == [pc |-> "none"]
Threads == 1..NumThreads
IdleThreads ==
    [t \in Threads |-> [pc |-> "idle", key |-> "", default |-> NoV,
                        curr |-> NoV, res |-> Ok("none")]]

(***************************************************************************)
(* The data actions ticked directly on a blackboard, as data.rs's test     *)
(* does: one action per builtin, its arguments and the tick number drawn   *)
(* from small sets.                                                        *)
(***************************************************************************)
DataInit ==
    /\ bb = EmptyBB
    /\ last = NoCall
    /\ actions = [n \in Names |-> NoAction]
    /\ tasks = [n \in Names |-> 0]
    /\ pool = <<>>
    /\ thr = IdleThreads
    /\ mutex = 0
    /\ bb0 = EmptyBB
    /\ children = <<>>
    /\ cursor = 0
    /\ visited = <<>>
    /\ imp = NoImport
    /\ viz = NoViz

\* the argument named "key" is there, and not at position 0
KeyIsLate(args) ==
    /\ \E j \in 2..Len(args) : args[j].name = "key"
    /\ args[1].name # "key"

\* the argument lists CheckEq is ticked with: its key may be a pointer
CheckEqArgs == ArgListsOf({"key", "expected"}, RtValues \cup Pointers)

Called(op, key, late, tick, o) ==
    /\ bb' = o.bb
    /\ last' = [NoCall EXCEPT !.seq = 1 - last.seq, !.op = op, !.key = key,
                              !.res = o.res, !.late = late, !.tick = tick]
    /\ UNCHANGED <<golVars, keeperVars, threadVars, treeVars>>

LockKey(args) ==
    Called("Lock", str(first(args)), KeyIsLate(args), 0,
           LockUnlockTick("Lock", args, bb))

UnlockKey(args) ==
    Called("Unlock", str(first(args)), KeyIsLate(args), 0,
           LockUnlockTick("Unlock", args, bb))

StoreTick(args, tick) ==
    Called("StoreTick", str(first(args)), KeyIsLate(args), tick,
           StoreTickTick(args, tick, bb))

\* last.key is the cell CheckEq's first argument points to, if it is a pointer
CheckEq(args) ==
    LET key == find_or_ith(args, "key", 0)
    IN Called("CheckEq", IF key.t = "ptr" THEN key.s ELSE "", KeyIsLate(args), 0,
              CheckEqTick(args, bb))

GenerateData(args) ==
    Called("GenerateData", str(find_or_ith(args, "key", 0)), KeyIsLate(args), 0,
           GenerateDataTick(args, bb))

StoreData(args) ==
    Called("StoreData", str(find_or_ith(args, "key", 0)), KeyIsLate(args), 0,
           StoreDataTick(args, bb))

DataNext ==
    \/ \E args \in ArgLists({"key", "x"}) : LockKey(args)
    \/ \E args \in ArgLists({"key", "x"}) : UnlockKey(args)
    \/ \E args \in ArgLists({"key", "x"}), tick \in Ints : StoreTick(args, tick)
    \/ \E args \in CheckEqArgs : CheckEq(args)
    \/ \E args \in ArgLists({"key", "default"}) : GenerateData(args)
    \/ \E args \in ArgLists({"key", "value"}) : StoreData(args)

SpecData == DataInit /\ [][DataNext]_vars

(***************************************************************************)
(* Claims about the blackboard's locks and the data actions (SpecData).    *)
(* A step is a call when it flips last.seq; last' then names the builtin,  *)
(* the key it resolved and the Tick it returned.                           *)
(***************************************************************************)
IsCall == last'.seq # last.seq

\* C6: lock on a key that is absent or already locked, and unlock on a key
\* that is absent or not locked, fail with a BlackBoardError; the blackboard
\* is unchanged and LockUnlockBBKey returns that error, not Success or
\* Failure.
C6_LockUnlockErrors ==
    [][(IsCall /\ last'.op \in {"Lock", "Unlock"} /\ last'.key # "") =>
        LET k == last'.key
            bad == IF last'.op = "Lock" THEN bb[k].st # "Unlocked"
                                        ELSE bb[k].st # "Locked"
        IN bad => (last'.res = bbErr /\ bb' = bb)]_vars

C6_Witness ==
    \/ /\ last.op = "Lock" /\ last.res = bbErr
       /\ last.key # "" /\ bb[last.key].st = "Locked"
    \/ /\ last.op = "Unlock" /\ last.res = bbErr
       /\ last.key # "" /\ bb[last.key].st = "Unlocked"

C7_LockStep ==
    (IsCall /\ last'.op = "Lock" /\ last'.key # ""
            /\ bb[last'.key].st = "Unlocked") =>
        LET k == last'.key
        IN /\ last'.res = Success
           /\ bb_is_locked(bb', k)
           /\ bb_get(bb', k) = bb_get(bb, k)
           /\ \A j \in Keys \ {k} : bb'[j] = bb[j]

C7_UnlockStep ==
    (IsCall /\ last'.op = "Unlock" /\ last'.key # ""
            /\ bb[last'.key].st = "Locked") =>
        LET k == last'.key
        IN /\ last'.res = Success
           /\ bb'[k] = Unlocked(bb[k].v)
           /\ \A j \in Keys \ {k} : bb'[j] = bb[j]

C7_RoundTripHere ==
    \A k \in Keys : bb[k].st = "Unlocked" =>
        LET a == <<Arg("key", StrV(k))>>
            l == LockUnlockTick("Lock", a, bb)
            u == LockUnlockTick("Unlock", a, l.bb)
        IN l.res = Success /\ u.res = Success /\ u.bb = bb

\* C7: on a key holding an unlocked value v, lock succeeds, is_locked is then
\* true and get still returns v; unlock of the locked cell succeeds and
\* restores Unlocked(v); neither changes another key, and lock followed by
\* unlock gives back the blackboard they started from.
C7_LockUnlockRoundTrip ==
    /\ []C7_RoundTripHere
    /\ [][C7_LockStep /\ C7_UnlockStep]_vars

C7_Witness ==
    /\ last.op = "Unlock" /\ last.res = Success
    /\ bb[last.key].st = "Unlocked"
    /\ \E j \in Keys \ {last.key} : bb[j].st # "Absent"

\* C8: StoreData, StoreTick and GenerateData ticked on a locked key return an
\* error and leave the whole blackboard unchanged; a cell that stays Locked
\* keeps the value it was locked with.
C8_LockedCellIsFrozen ==
    [][/\ (IsCall /\ last'.op \in {"StoreData", "StoreTick", "GenerateData"}
                  /\ last'.key # "" /\ bb[last'.key].st = "Locked") =>
            (~last'.res.ok /\ bb' = bb)
       /\ \A k \in Keys : (bb[k].st = "Locked" /\ bb'[k].st = "Locked") =>
            bb'[k].v = bb[k].v]_vars

C8_Witness ==
    /\ last.op \in {"StoreData", "StoreTick", "GenerateData"}
    /\ last.res = bbErr
    /\ last.key # "" /\ bb[last.key].st = "Locked"

(***************************************************************************)
(* The action keeper and the runtime environment's task table.             *)
(***************************************************************************)
\* Impl::tick of a registered action: the builtin it is
ImplTick(impl, args, tick, b) ==
    CASE impl = "StoreData" -> StoreDataTick(args, b)
      [] impl = "CheckEq" -> CheckEqTick(args, b)
      [] impl = "StoreTick" -> StoreTickTick(args, tick, b)
      [] impl = "GenerateData" -> GenerateDataTick(args, b)
      [] impl = "Lock" -> LockUnlockTick("Lock", args, b)
      [] OTHER -> LockUnlockTick("Unlock", args, b)

\* a task handed to spawn_blocking: the cloned action bound to (args, ctx)
NewTask(name, impl, args, tick) ==
    [name |-> name, impl |-> impl, args |-> args, tick |-> tick,
     st |-> "running", res |-> Ok("none")]
\* what is left of a task once its handle was joined
Joined(name) ==
    [name |-> name, impl |-> "", args |-> <<>>, tick |-> 0,
     st |-> "joined", res |-> Ok("none")]

\* RtEnv::task_state: takes the handle out of the table; a finished task's
\* handle is joined for its result, an unfinished one is handed back
task_state(tbl, pl, name) ==
    LET h == tbl[name]
        rest == [tbl EXCEPT ![name] = 0]
    IN IF h = 0
       THEN [state |-> "Absent", handle |-> 0, res |-> Ok("none"),
             tasks |-> tbl, pool |-> pl]
       ELSE IF pl[h].st = "finished"
       THEN [state |-> "Finished", handle |-> h, res |-> pl[h].res,
             tasks |-> rest, pool |-> [pl EXCEPT ![h] = Joined(name)]]
       ELSE [state |-> "Started", handle |-> h, res |-> Ok("none"),
             tasks |-> rest, pool |-> pl]

\* ActionKeeper::register
register_first_wins(acts, name, action) ==
    IF acts[name].kind = "None" THEN [acts EXCEPT ![name] = action] ELSE acts

register(acts, name, action) == [acts EXCEPT ![name] = action]

\* what an on_tick call yields: the Tick returned, the branch taken (obs),
\* the action implementation and the task the call concerned, and the task
\* table, the pool and the blackboard after the call
Ticked(res, obs, impl, tid, tbl, pl, b) ==
    [res |-> res, obs |-> obs, impl |-> impl, tid |-> tid,
     tasks |-> tbl, pool |-> pl, bb |-> b]

\* ActionKeeper::get_mut: the action of the name, or the error
get_mut_err == uex

\* on_tick, TaskState::Absent: clone the action, spawn it, keep the handle
on_tick_absent_drops_args(a, ts, b, name, args, tick) ==
    LET h == Len(ts.pool) + 1
    IN Ticked(Running, "Absent", a.impl, h,
              [ts.tasks EXCEPT ![name] = h],
              Append(ts.pool, NewTask(name, a.impl, <<>>, tick)), b)

on_tick_absent(a, ts, b, name, args, tick) ==
    LET h == Len(ts.pool) + 1
    IN Ticked(Running, "Absent", a.impl, h,
              [ts.tasks EXCEPT ![name] = h],
              Append(ts.pool, NewTask(name, a.impl, args, tick)), b)

\* on_tick, TaskState::Started(handle): put the handle back
on_tick_drops_handle(ts, b, name) ==
    Ticked(Running, "Started", ts.pool[ts.handle].impl, ts.handle,
           ts.tasks, ts.pool, b)

on_tick_started(ts, b, name) ==
    Ticked(Running, "Started", ts.pool[ts.handle].impl, ts.handle,
           [ts.tasks EXCEPT ![name] = ts.handle], ts.pool, b)

\* on_tick, TaskState::Finished(r): r
on_tick_finished_running(pl, ts, b) ==
    Ticked(Running, "Finished", pl[ts.handle].impl, ts.handle,
           ts.tasks, ts.pool, b)

on_tick_finished_success(pl, ts, b) ==
    Ticked(Success, "Finished", pl[ts.handle].impl, ts.handle,
           ts.tasks, ts.pool, b)

on_tick_finished(pl, ts, b) ==
    Ticked(ts.res, "Finished", pl[ts.handle].impl, ts.handle,
           ts.tasks, ts.pool, b)

\* ActionKeeper::on_tick
on_tick_always_spawns(acts, tbl, pl, b, name, args, tick) ==
    LET a == acts[name]
        ts == task_state(tbl, pl, name)
    IN IF a.kind = "None"
       THEN Ticked(get_mut_err, "Unregistered", "", 0, tbl, pl, b)
       ELSE IF a.kind = "Sync"
       THEN LET o == ImplTick(a.impl, args, tick, b)
            IN Ticked(o.res, "Sync", a.impl, 0, tbl, pl, o.bb)
       ELSE IF ts.state \in {"Absent", "Started"}
       THEN LET h == Len(ts.pool) + 1
            IN Ticked(Running, ts.state, a.impl, h,
                      [ts.tasks EXCEPT ![name] = h],
                      Append(ts.pool, NewTask(name, a.impl, args, tick)), b)
       ELSE on_tick_finished(pl, ts, b)

on_tick_polls_first(acts, tbl, pl, b, name, args, tick) ==
    LET a == acts[name]
        ts == task_state(tbl, pl, name)
    IN IF a.kind = "None"
       THEN Ticked(get_mut_err, "Unregistered", "", 0, tbl, pl, b)
       ELSE IF a.kind = "Sync"
       THEN LET o == ImplTick(a.impl, args, tick, b)
            IN Ticked(o.res, "Sync", a.impl, 0, ts.tasks, ts.pool, o.bb)
       ELSE IF ts.state = "Absent"
       THEN on_tick_absent(a, ts, b, name, args, tick)
       ELSE IF ts.state = "Started"
       THEN on_tick_started(ts, b, name)
       ELSE on_tick_finished(pl, ts, b)

on_tick_error_as_failure(acts, tbl, pl, b, name, args, tick) ==
    LET a == acts[name]
        ts == task_state(tbl, pl, name)
    IN IF a.kind = "None"
       THEN Ticked(get_mut_err, "Unregistered", "", 0, tbl, pl, b)
       ELSE IF a.kind = "Sync"
       THEN LET o == ImplTick(a.impl, args, tick, b)
            IN Ticked(IF o.res.ok THEN o.res ELSE Failure, "Sync", a.impl, 0,
                      tbl, pl, o.bb)
       ELSE IF ts.state = "Absent"
       THEN on_tick_absent(a, ts, b, name, args, tick)
       ELSE IF ts.state = "Started"
       THEN on_tick_started(ts, b, name)
       ELSE on_tick_finished(pl, ts, b)

on_tick(acts, tbl, pl, b, name, args, tick) ==
    LET a == acts[name]
        ts == task_state(tbl, pl, name)
    IN IF a.kind = "None"
       THEN Ticked(get_mut_err, "Unregistered", "", 0, tbl, pl, b)
       ELSE IF a.kind = "Sync"
       THEN LET o == ImplTick(a.impl, args, tick, b)
            IN Ticked(o.res, "Sync", a.impl, 0, tbl, pl, o.bb)
       ELSE IF ts.state = "Absent"
       THEN on_tick_absent(a, ts, b, name, args, tick)
       ELSE IF ts.state = "Started"
       THEN on_tick_started(ts, b, name)
       ELSE on_tick_finished(pl, ts, b)

\* the argument lists the keeper is ticked with
KArgs ==
    {<<Arg("key", StrV("k1")), Arg("x", IntV(MaxInt))>>,
     <<Arg("key", IntV(0)), Arg("x", IntV(0))>>}

KeeperInit ==
    /\ actions = [n \in Names |-> NoAction]
    /\ tasks = [n \in Names |-> 0]
    /\ pool = <<>>
    /\ bb = EmptyBB
    /\ last = NoCall
    /\ thr = IdleThreads
    /\ mutex = 0
    /\ bb0 = EmptyBB
    /\ children = <<>>
    /\ cursor = 0
    /\ visited = <<>>
    /\ imp = NoImport
    /\ viz = NoViz

\* the host registers an action under a name
Register(name, action) ==
    /\ actions' = register(actions, name, action)
    /\ last' = [NoCall EXCEPT !.seq = 1 - last.seq, !.op = "register",
                              !.name = name, !.obs = action.kind,
                              !.impl = action.impl]
    /\ UNCHANGED <<golVars, tasks, pool, bb, threadVars, treeVars>>

\* a leaf ticks the keeper; a submission needs a free slot of the model's pool
OnTick(name, args) ==
    LET r == on_tick(actions, tasks, pool, bb, name, args, 0)
    IN /\ Len(r.pool) <= MaxTasks
       /\ tasks' = r.tasks
       /\ pool' = r.pool
       /\ bb' = r.bb
       /\ last' = [NoCall EXCEPT !.seq = 1 - last.seq, !.op = "on_tick",
                                 !.name = name, !.obs = r.obs,
                                 !.impl = r.impl, !.res = r.res,
                                 !.tid = r.tid, !.args = args]
       /\ UNCHANGED <<golVars, actions, threadVars, treeVars>>

\* a worker of the pool runs a submitted task to its end
Complete(h) ==
    /\ pool[h].st = "running"
    /\ LET t == pool[h]
           o == ImplTick(t.impl, t.args, t.tick, bb)
       IN /\ pool' = [pool EXCEPT ![h].st = "finished", ![h].res = o.res]
          /\ bb' = o.bb
    /\ last' = [NoCall EXCEPT !.seq = last.seq, !.op = "worker"]
    /\ UNCHANGED <<golVars, actions, tasks, threadVars, treeVars>>

KeeperNext ==
    \/ \E n \in Names, i \in Impls : Register(n, Sync(i))
    \/ \E n \in Names, i \in Impls : Register(n, Async(i))
    \/ \E n \in Names, args \in KArgs : OnTick(n, args)
    \/ \E h \in 1..Len(pool) : Complete(h)

Spec == KeeperInit /\ [][KeeperNext]_vars

(***************************************************************************)
(* Claims about the keeper (Spec).  A step is an on_tick call when it      *)
(* flips last.seq and last'.op is "on_tick"; the unprimed variables are    *)
(* the state the call found.                                               *)
(***************************************************************************)
IsTick == IsCall /\ last'.op = "on_tick"
\* the tasks of a name whose handle has not been joined
InFlight(n) == {h \in 1..Len(pool) : pool[h].name = n /\ pool[h].st # "joined"}

C1_OneInFlight == \A n \in Names : Cardinality(InFlight(n)) <= 1

C1_SubmitStep ==
    /\ (pool' # pool /\ Len(pool') > Len(pool)) =>
          /\ IsTick /\ last'.obs = "Absent" /\ tasks[last'.name] = 0
          /\ Len(pool') = Len(pool) + 1
    /\ (IsTick /\ tasks[last'.name] # 0
               /\ actions[last'.name].kind = "Async"
               /\ pool[tasks[last'.name]].st = "running") =>
          (last'.obs = "Started" /\ pool' = pool)

\* C1: a task is submitted only by an on_tick call that finds no entry for
\* the name (Absent); a call that finds an unfinished task (Started) submits
\* nothing; at most one task per action name is in flight in every state.
C1_SubmitOnlyWhenAbsent == []C1_OneInFlight /\ [][C1_SubmitStep]_vars

C1_Witness ==
    /\ last.op = "on_tick" /\ last.obs = "Started"
    /\ \E n \in Names : Cardinality(InFlight(n)) = 1 /\ n # last.name

C2_Step ==
    (IsTick /\ actions[last'.name].kind = "Async") =>
        LET n == last'.name
        IN /\ tasks[n] = 0 =>
                /\ last'.res = Running
                /\ tasks'[n] = Len(pool) + 1
                /\ pool'[tasks'[n]].st = "running"
                /\ pool'[tasks'[n]].name = n
           /\ (tasks[n] # 0 /\ pool[tasks[n]].st = "running") =>
                /\ last'.res = Running
                /\ tasks'[n] = tasks[n]
                /\ pool'[tasks'[n]] = pool[tasks[n]]
           /\ \A m \in Names \ {n} : tasks'[m] = tasks[m]

\* C2: on_tick on an async action returns Running without waiting, both when
\* no task exists (the entry is created) and when the task has not completed
\* (the same handle is put back); after either call the table holds the one
\* entry for the name, and the task is still running.
C2_RunningKeepsOneEntry == [][C2_Step]_vars

C2_Witness ==
    /\ last.op = "on_tick" /\ last.obs = "Started" /\ last.res = Running
    /\ tasks[last.name] = last.tid /\ pool[last.tid].st = "running"

C3_NoJoinedEntry ==
    \A n \in Names : tasks[n] # 0 => pool[tasks[n]].st # "joined"

C3_Step ==
    (IsTick /\ actions[last'.name].kind = "Async") =>
        LET n == last'.name
            h == tasks[n]
        IN /\ (h # 0 /\ pool[h].st = "finished") =>
                /\ last'.res = pool[h].res
                /\ last'.res # Running
                /\ tasks'[n] = 0
                /\ pool'[h].st = "joined"
           /\ (h = 0 /\ last.op = "on_tick" /\ last.name = n
                     /\ last.obs = "Finished") =>
                /\ last'.res = Running
                /\ tasks'[n] \notin {0, last.tid}
                /\ pool'[tasks'[n]].st = "running"

\* C3: the first on_tick after the task completed returns exactly the result
\* the task produced and leaves no entry for the name; the handle is joined
\* by that call alone (a joined task is never in the table again), and the
\* next on_tick for the name submits a new task and returns Running.
C3_FinishedResultOnce == []C3_NoJoinedEntry /\ [][C3_Step]_vars

C3_Witness ==
    /\ last.op = "on_tick" /\ last.obs = "Absent"
    /\ \E h \in 1..Len(pool) :
          /\ pool[h].name = last.name /\ pool[h].st = "joined"
          /\ h # last.tid

\* C4 (as claimed): on_tick with a name that has no registered action fails
\* with the error kind UnImplementedAction, submits no task and leaves the
\* task table and the blackboard unchanged.
C4_UnregisteredIsUnImplemented ==
    [][(IsTick /\ actions[last'.name].kind = "None") =>
          /\ last'.res = Err("UnImplementedAction")
          /\ tasks' = tasks /\ pool' = pool /\ bb' = bb]_vars

\* C5 (as claimed): after a re-registration every later on_tick of the name
\* dispatches to the action registered last, also while a task submitted
\* from the earlier action is in flight.
C5_AlwaysLastWriter ==
    (last.op = "on_tick" /\ last.obs # "Unregistered") =>
        last.impl = actions[last.name].impl

C5_TableStep ==
    /\ (IsCall /\ last'.op = "register") =>
          /\ actions'[last'.name] =
                 [kind |-> last'.obs, impl |-> last'.impl]
          /\ \A m \in Names \ {last'.name} : actions'[m] = actions[m]
    /\ (IsTick /\ last'.obs = "Sync") =>
          /\ actions[last'.name].kind = "Sync"
          /\ last'.impl = actions[last'.name].impl
    /\ (IsTick /\ last'.obs = "Absent") =>
          /\ last'.impl = actions[last'.name].impl
          /\ pool'[last'.tid].impl = actions[last'.name].impl
    /\ (IsTick /\ last'.obs \in {"Started", "Finished"}) =>
          /\ last'.tid = tasks[last'.name]
          /\ last'.impl = pool[last'.tid].impl

\* C5 (amended): register overwrites the table entry, and an on_tick that
\* runs an action inline or submits a task uses the action registered last;
\* an on_tick that finds a task in the table polls that task, the one
\* submitted from the action registered when it was submitted.
C5_LastWriterForNewWork == [][C5_TableStep]_vars

C5_Witness ==
    /\ last.op = "on_tick" /\ last.obs \in {"Started", "Finished"}
    /\ actions[last.name].kind = "Async"
    /\ last.impl # actions[last.name].impl

(***************************************************************************)
(* GenerateData ticked from several threads at once (SpecGen).  Each       *)
(* thread runs GenerateData::tick on the shared blackboard, its key and    *)
(* default already resolved from its arguments; the steps are the          *)
(* statements of the function's tail: take the mutex, get, put, return     *)
(* (which drops the guard).                                                *)
(***************************************************************************)
StartThread(k, d) ==
    [pc |-> "start", key |-> k, default |-> d, curr |-> NoV,
     res |-> Ok("none")]

GenInit ==
    /\ thr \in [Threads -> {StartThread(k, IntV(d)) : k \in Keys, d \in Ints}]
    /\ bb0 \in [Keys -> {AbsentCell, Unlocked(IntV(0)), Locked(IntV(0))}]
    /\ bb = bb0
    /\ mutex = 0
    /\ last = NoCall
    /\ actions = [n \in Names |-> NoAction]
    /\ tasks = [n \in Names |-> 0]
    /\ pool = <<>>
    /\ children = <<>>
    /\ cursor = 0
    /\ visited = <<>>
    /\ imp = NoImport
    /\ viz = NoViz

\* let mut bb = arc_bb.lock()?  -- waits until the mutex is free
GenAcquire_without_mutex(t) ==
    /\ thr[t].pc = "start"
    /\ thr' = [thr EXCEPT ![t].pc = "locked"]
    /\ UNCHANGED <<golVars, mutex, bb, bb0, last, keeperVars, treeVars>>

GenAcquire(t) ==
    /\ thr[t].pc = "start"
    /\ mutex = 0
    /\ mutex' = t
    /\ thr' = [thr EXCEPT ![t].pc = "locked"]
    /\ UNCHANGED <<golVars, bb, bb0, last, keeperVars, treeVars>>

\* let curr = bb.get(key.clone())?.unwrap_or(&default).clone()
GenGet(t) ==
    /\ thr[t].pc = "locked"
    /\ thr' = [thr EXCEPT ![t].pc = "read",
                          ![t].curr = IF bb[thr[t].key].st = "Absent"
                                      THEN thr[t].default
                                      ELSE bb_get(bb, thr[t].key)]
    /\ UNCHANGED <<golVars, mutex, bb, bb0, last, keeperVars, treeVars>>

\* bb.put(key, (self.generator)(curr))?  -- an error returns, dropping the guard
GenPut(t) ==
    /\ thr[t].pc = "read"
    /\ LET r == bb_put(bb, thr[t].key, generator(thr[t].curr))
       IN IF r.err
          THEN /\ thr' = [thr EXCEPT ![t].pc = "done", ![t].res = bbErr]
               /\ mutex' = 0
               /\ bb' = bb
          ELSE /\ thr' = [thr EXCEPT ![t].pc = "written"]
               /\ bb' = r.bb
               /\ mutex' = mutex
    /\ UNCHANGED <<golVars, bb0, last, keeperVars, treeVars>>

\* Ok(TickResult::Success)  -- the guard is dropped as the function returns
GenReturn(t) ==
    /\ thr[t].pc = "written"
    /\ thr' = [thr EXCEPT ![t].pc = "done", ![t].res = Success]
    /\ mutex' = 0
    /\ UNCHANGED <<golVars, bb, bb0, last, keeperVars, treeVars>>

GenNext ==
    \E t \in Threads :
        \/ GenAcquire(t)
        \/ GenGet(t)
        \/ GenPut(t)
        \/ GenReturn(t)

SpecGen == GenInit /\ [][GenNext]_vars

RECURSIVE Iter(_, _)
\* the generator applied n times
Iter(n, v) == IF n = 0 THEN v ELSE generator(Iter(n - 1, v))

On(k) == {t \in Threads : thr[t].key = k}
AllDone == \A t \in Threads : thr[t].pc = "done"

C9_Atomic ==
    \A t \in Threads :
        /\ thr[t].pc \in {"locked", "read", "written"} => mutex = t
        /\ thr[t].pc = "read" =>
              thr[t].curr = IF bb[thr[t].key].st = "Absent"
                            THEN thr[t].default
                            ELSE bb_get(bb, thr[t].key)

C9_Final ==
    AllDone => \A k \in Keys :
        LET n == Cardinality(On(k))
        IN CASE bb0[k].st = "Locked" ->
                  /\ bb[k] = bb0[k]
                  /\ \A t \in On(k) : thr[t].res = bbErr
             [] bb0[k].st = "Unlocked" ->
                  /\ bb[k] = Unlocked(Iter(n, bb0[k].v))
                  /\ \A t \in On(k) : thr[t].res = Success
             [] OTHER ->
                  /\ n = 0 => bb[k] = AbsentCell
                  /\ n > 0 => \E t \in On(k) :
                                 bb[k] = Unlocked(Iter(n, thr[t].default))
                  /\ \A t \in On(k) : thr[t].res = Success

\* C9: GenerateData reads the cell (or the default) and writes f(value)
\* inside one critical section: between a thread's get and its put the mutex
\* is its own and the value it read is still the cell's; once n ticks on a key
\* have all returned, the cell holds f applied n times to the initial value
\* (or to the default of one of the ticks when the key was absent), and a
\* key that was locked is untouched.
C9_GenerateDataAtomic == C9_Atomic /\ C9_Final

C9_Witness ==
    /\ AllDone
    /\ \E k \in Keys : Cardinality(On(k)) >= 2 /\ bb0[k].st = "Unlocked"
                       /\ bb[k] = Unlocked(Iter(Cardinality(On(k)), bb0[k].v))

(***************************************************************************)
(* The tree engine (SpecTree): a root Sequence over leaf action nodes,     *)
(* ticked by the driver while the workers complete the submitted tasks.    *)
(* The registry is filled before the session starts.                       *)
(***************************************************************************)
Leaf(name, args) == [name |-> name, args |-> args]

\* Sequence: the child a tick starts from
seq_restarts(c) == 1

seq_start(c) == IF c = 0 THEN 1 ELSE c

RECURSIVE seq_run(_, _, _, _, _, _, _, _)
\* Sequence: tick the children in order from child i; a leaf's tick is the
\* keeper's on_tick.  c0 is the cursor the tick found.
seq_run(acts, kids, c0, i, tbl, pl, b, seen) ==
    IF i > Len(kids)
    THEN [res |-> Success, cursor |-> 0, tasks |-> tbl, pool |-> pl,
          bb |-> b, visited |-> seen]
    ELSE LET r == on_tick(acts, tbl, pl, b, kids[i].name, kids[i].args, 0)
             out(res, c) == [res |-> res, cursor |-> c, tasks |-> r.tasks,
                             pool |-> r.pool, bb |-> r.bb,
                             visited |-> Append(seen, i)]
         IN IF r.res = Success
            THEN seq_run(acts, kids, c0, i + 1, r.tasks, r.pool, r.bb,
                         Append(seen, i))
            ELSE IF r.res = Running THEN out(Running, i)
            ELSE IF r.res = Failure THEN out(Failure, 0)
            ELSE out(r.res, c0)

\* RTree tick of the root
root_tick(acts, kids, c, tbl, pl, b) ==
    seq_run(acts, kids, c, seq_start(c), tbl, pl, b, <<>>)

TreeInit ==
    /\ actions \in [Names -> {Sync(i) : i \in Impls}
                             \cup {Async(i) : i \in Impls}]
    /\ children \in UNION {[1..n -> {Leaf(nm, a) : nm \in Names, a \in KArgs}] :
                                n \in 1..NumChildren}
    /\ cursor = 0
    /\ visited = <<>>
    /\ imp = NoImport
    /\ viz = NoViz
    /\ tasks = [n \in Names |-> 0]
    /\ pool = <<>>
    /\ bb = EmptyBB
    /\ last = NoCall
    /\ thr = IdleThreads
    /\ mutex = 0
    /\ bb0 = EmptyBB

\* the driver ticks the root once
RootTick ==
    LET r == root_tick(actions, children, cursor, tasks, pool, bb)
    IN /\ Len(r.pool) <= MaxTasks
       /\ tasks' = r.tasks
       /\ pool' = r.pool
       /\ bb' = r.bb
       /\ cursor' = r.cursor
       /\ visited' = r.visited
       /\ last' = [NoCall EXCEPT !.seq = 1 - last.seq, !.op = "tick",
                                 !.res = r.res]
       /\ UNCHANGED <<golVars, actions, children, threadVars>>

\* a worker of the pool runs a submitted task to its end
TreeComplete(h) ==
    /\ pool[h].st = "running"
    /\ LET t == pool[h]
           o == ImplTick(t.impl, t.args, t.tick, bb)
       IN /\ pool' = [pool EXCEPT ![h].st = "finished", ![h].res = o.res]
          /\ bb' = o.bb
    /\ UNCHANGED <<golVars, actions, tasks, last, threadVars, treeVars>>

TreeNext ==
    \/ RootTick
    \/ \E h \in 1..Len(pool) : TreeComplete(h)

SpecTree == TreeInit /\ [][TreeNext]_vars

\* the session's scheduling: the driver keeps ticking the root, and the
\* blocking-thread pool runs every submitted task to its end
TreeWork == \E h \in 1..MaxTasks : h <= Len(pool) /\ TreeComplete(h)

\* a session on a Sequence with a single leaf
LeafInit == TreeInit /\ Len(children) = 1

SpecLeafFair ==
    LeafInit /\ [][TreeNext]_vars /\ WF_vars(RootTick) /\ WF_vars(TreeWork)

IsRootTick == IsCall /\ last'.op = "tick"

C10_Step ==
    IsRootTick =>
        LET n == Len(visited')
        IN /\ n >= 1
           /\ visited'[1] = (IF cursor = 0 THEN 1 ELSE cursor)
           /\ \A j \in 1..n : visited'[j] = visited'[1] + j - 1
           /\ last'.res = Running => cursor' = visited'[n]
           /\ last'.res \in {Success, Failure} => cursor' = 0
           /\ last'.res = Success => visited'[n] = Len(children)

\* C10: a Sequence whose child i returned Running re-enters at child i on
\* the next tick and ticks no child before i; children are ticked in their
\* fixed order; Running pins the cursor at the child that returned it, and
\* Success (all children succeeded) or Failure resets it, so that the next
\* tick starts at the first child.
C10_SequenceResumes == [][C10_Step]_vars

C10_Witness ==
    /\ last.op = "tick" /\ last.res \in {Success, Failure}
    /\ cursor = 0
    /\ visited # <<>> /\ visited[1] > 1

\* the leaf's action runs inline and returns an error
C11_SyncErr(i) ==
    /\ actions[children[i].name].kind = "Sync"
    /\ ~ImplTick(actions[children[i].name].impl, children[i].args, 0, bb).res.ok
\* the leaf's action is async and its task in the table finished with an error
C11_TaskErr(i) ==
    LET h == tasks[children[i].name]
    IN /\ actions[children[i].name].kind = "Async"
       /\ h # 0 /\ pool[h].st = "finished" /\ ~pool[h].res.ok

C11_Step ==
    IsRootTick =>
        LET n == Len(visited')
            e == visited'[n]
        IN /\ \A j \in 1..n : C11_SyncErr(visited'[j]) =>
                 /\ j = n
                 /\ last'.res = ImplTick(actions[children[e].name].impl,
                                         children[e].args, 0, bb).res
           /\ C11_TaskErr(visited'[1]) =>
                 /\ n = 1
                 /\ last'.res = pool[tasks[children[e].name]].res
           /\ ~last'.res.ok =>
                 \/ C11_SyncErr(e)
                 \/ C11_TaskErr(e) /\ last'.res = pool[tasks[children[e].name]].res

C12_OneAsyncLeaf ==
    Len(children) = 1 /\ actions[children[1].name].kind = "Async"

C12_Step ==
    /\ (IsRootTick /\ C12_OneAsyncLeaf) =>
          LET n == children[1].name
              h == tasks[n]
          IN /\ h = 0 =>
                  /\ last'.res = Running
                  /\ pool'[tasks'[n]].st = "running"
             /\ (h # 0 /\ pool[h].st = "running") =>
                  /\ last'.res = Running
                  /\ pool' = pool /\ tasks' = tasks
             /\ (h # 0 /\ pool[h].st = "finished") =>
                  /\ last'.res = pool[h].res
                  /\ last'.res # Running
    /\ \A h \in 1..Len(pool) :
          (pool[h].st = "running" /\ pool'[h].st = "finished") =>
              pool'[h].res =
                  ImplTick(pool[h].impl, pool[h].args, pool[h].tick, bb).res

C12_Terminal == last.op = "tick" /\ last.res # Running

\* C12: in a Sequence whose one child is an async leaf, every root tick made
\* before the task completed returns Running and leaves the task running (no
\* tick waits for it), and the first root tick after the worker completed it
\* returns the result the action produced, a terminal outcome; when the
\* worker completes its tasks and the driver keeps ticking, a root tick
\* eventually returns a terminal outcome.
C12_AsyncLeafTerminates ==
    /\ [][C12_Step]_vars
    /\ C12_OneAsyncLeaf => <>C12_Terminal

C12_Witness ==
    /\ C12_OneAsyncLeaf
    /\ C12_Terminal /\ last.res # Success
    /\ \E h \in 1..Len(pool) : pool[h].st = "joined"

(***************************************************************************)
(* Claims about the arguments and the results of the data actions          *)
(* (SpecData).  The claims about what an action does with an argument      *)
(* list are stated for every list of the action's domain, on the           *)
(* blackboard of the state.                                                *)
(***************************************************************************)
\* the lists of two arguments in which "key" is the second
LateKey(lists) == {a \in lists : KeyIsLate(a)}
\* the same named arguments, the one named "key" first
KeyFirst(a) == <<a[2], a[1]>>

\* the actions that resolve by find_or_ith
C13_ByName ==
    /\ \A a \in LateKey(CheckEqArgs) :
          CheckEqTick(a, bb) = CheckEqTick(KeyFirst(a), bb)
    /\ \A a \in LateKey(ArgLists({"key", "default"})) :
          GenerateDataTick(a, bb) = GenerateDataTick(KeyFirst(a), bb)
    /\ \A a \in LateKey(ArgLists({"key", "value"})) :
          StoreDataTick(a, bb) = StoreDataTick(KeyFirst(a), bb)
    /\ \A v \in RtValues :
          /\ StoreDataTick(<<Arg("value", v)>>, bb) =
                StoreDataTick(<<Arg("key", v), Arg("value", v)>>, bb)
          /\ GenerateDataTick(<<Arg("default", v)>>, bb) =
                GenerateDataTick(<<Arg("key", v), Arg("default", v)>>, bb)

\* the actions that take args.first()
C13_ByPosition ==
    \A a \in ArgLists({"key", "x"}) : a # <<>> =>
        LET k == <<Arg("key", a[1].v)>>
        IN /\ LockUnlockTick("Lock", a, bb) = LockUnlockTick("Lock", k, bb)
           /\ LockUnlockTick("Unlock", a, bb) = LockUnlockTick("Unlock", k, bb)
           /\ \A t \in Ints : StoreTickTick(a, t, bb) = StoreTickTick(k, t, bb)

\* C13 (as claimed): every builtin data action resolves its arguments by
\* name first and by position second: on a list in which the argument named
\* "key" is not at position 0, it does what it does on the same arguments
\* with "key" first, that is, it operates on the named key.
C13_EveryActionByName ==
    /\ C13_ByName
    /\ \A a \in LateKey(ArgLists({"key", "x"})) :
          /\ LockUnlockTick("Lock", a, bb) =
                LockUnlockTick("Lock", KeyFirst(a), bb)
          /\ LockUnlockTick("Unlock", a, bb) =
                LockUnlockTick("Unlock", KeyFirst(a), bb)
          /\ \A t \in Ints :
                StoreTickTick(a, t, bb) = StoreTickTick(KeyFirst(a), t, bb)

\* C13 (amended): CheckEq, GenerateData and StoreData resolve each argument
\* by name first and by its positional slot second, so that on a list in
\* which "key" is not at position 0 they operate on the named key;
\* LockUnlockBBKey and StoreTick take the argument at position 0 as the key,
\* whatever the arguments are named.
C13_ByNameOrFirst == C13_ByName /\ C13_ByPosition

C13_Witness ==
    /\ last.op = "StoreData" /\ last.late /\ last.res = Success
    /\ last.key # "" /\ bb[last.key].st = "Unlocked"

\* C14 (as claimed): StoreTick on a key argument that is missing or is not
\* a string ends with an error, never with Failure or Success, and writes
\* nothing; so do CheckEq, GenerateData and StoreData when a required
\* argument is missing.
C14_BadArgumentIsError ==
    /\ (last.op = "StoreTick" /\ last.key = "") => ~last.res.ok
    /\ \A a \in ArgLists({"key", "x"}), t \in Ints :
          str(first(a)) = "" => StoreTickTick(a, t, bb).bb = bb
    /\ \A a \in CheckEqArgs :
          (find_or_ith(a, "key", 0) = NoV
              \/ find_or_ith(a, "expected", 1) = NoV) =>
             (~CheckEqTick(a, bb).res.ok /\ CheckEqTick(a, bb).bb = bb)
    /\ \A a \in ArgLists({"key", "default"}) :
          (find_or_ith(a, "key", 0) = NoV
              \/ find_or_ith(a, "default", 1) = NoV) =>
             (~GenerateDataTick(a, bb).res.ok /\ GenerateDataTick(a, bb).bb = bb)
    /\ \A a \in ArgLists({"key", "value"}) :
          (find_or_ith(a, "key", 0) = NoV
              \/ find_or_ith(a, "value", 1) = NoV) =>
             (~StoreDataTick(a, bb).res.ok /\ StoreDataTick(a, bb).bb = bb)

C15_PutGet ==
    \A k \in Keys, v \in RtValues :
        LET r == bb_put(bb, k, v)
        IN ~r.err => /\ bb_get(r.bb, k) = v
                     /\ \A j \in Keys \ {k} : r.bb[j] = bb[j]

C15_Step ==
    /\ (IsCall /\ last'.op = "StoreTick" /\ last'.key # ""
               /\ bb[last'.key].st # "Locked") =>
          /\ last'.res = Success
          /\ bb_get(bb', last'.key) = IntV(last'.tick)
          /\ ~bb_is_locked(bb', last'.key)
          /\ \A j \in Keys \ {last'.key} : bb'[j] = bb[j]
    /\ (IsCall /\ last'.op \in {"StoreTick", "StoreData", "GenerateData"}
               /\ last'.res = Success) =>
          \A j \in Keys \ {last'.key} : bb'[j] = bb[j]

\* C15: StoreTick with a string key on a cell that is absent or unlocked,
\* during root tick N, returns Success, and get(key) then returns the
\* integer N; a successful put(key, v) followed by get(key) returns v; no
\* other key is changed.
C15_StoreTickReadBack == []C15_PutGet /\ [][C15_Step]_vars

C15_Witness ==
    /\ last.op = "StoreTick" /\ last.res = Success /\ last.tick = MaxInt
    /\ bb[last.key] = Unlocked(IntV(MaxInt))
    /\ \E j \in Keys \ {last.key} : bb[j].st # "Absent"

C16_Result ==
    \A a \in CheckEqArgs :
        LET key == find_or_ith(a, "key", 0)
            expected == find_or_ith(a, "expected", 1)
            actual == IF key.t = "ptr" THEN bb_get(bb, key.s) ELSE key
        IN (key # NoV /\ expected # NoV
                /\ (key.t = "ptr" => bb[key.s].st # "Absent")) =>
             CheckEqTick(a, bb) =
                 Out(IF actual = expected THEN Success ELSE Failure, bb)

C16_Step ==
    (IsCall /\ last'.op = "CheckEq") =>
        /\ bb' = bb /\ tasks' = tasks /\ pool' = pool
        /\ last'.res \in {Success, Failure} \/ ~last'.res.ok

\* C16: CheckEq returns Success when the value its first argument resolves
\* to (the cell's value, for a pointer) equals the expected argument, and
\* Failure, not an error, when they differ; it leaves the blackboard and the
\* task table unchanged.
C16_CheckEqCompares == []C16_Result /\ [][C16_Step]_vars

C16_Witness ==
    /\ last.op = "CheckEq" /\ last.res = Failure
    /\ last.key # "" /\ bb[last.key].st # "Absent"

(***************************************************************************)
(* Claims about the keeper's dispatch and what a task captures (Spec).     *)
(***************************************************************************)
C17_Step ==
    (IsTick /\ actions[last'.name].kind = "Sync") =>
        LET o == ImplTick(actions[last'.name].impl, last'.args, 0, bb)
        IN /\ last'.obs = "Sync"
           /\ last'.res = o.res
           /\ bb' = o.bb
           /\ tasks' = tasks /\ pool' = pool

\* C17: on_tick on a Sync action runs the action inline and returns exactly
\* the result or the error the action returned; the call leaves the task
\* table and the tasks as they were, whatever the table holds, an in-flight
\* entry under the same name included.
C17_SyncRunsInline == [][C17_Step]_vars

C17_Witness ==
    /\ last.op = "on_tick" /\ last.obs = "Sync" /\ ~last.res.ok
    /\ tasks[last.name] # 0 /\ pool[tasks[last.name]].st = "running"

C18_Step ==
    /\ (IsTick /\ actions[last'.name].kind = "Async") =>
          LET n == last'.name
              h == tasks[n]
          IN /\ h = 0 => pool'[tasks'[n]].args = last'.args
             /\ (h # 0 /\ pool[h].st = "running") =>
                   /\ last'.res = Running
                   /\ pool' = pool /\ tasks' = tasks
             /\ (h # 0 /\ pool[h].st = "finished") =>
                   last'.res = pool[h].res
    /\ \A h \in 1..Len(pool) :
          (pool[h].st = "running" /\ pool'[h].st = "finished") =>
              /\ pool'[h].args = pool[h].args
              /\ pool'[h].res =
                    ImplTick(pool[h].impl, pool[h].args, pool[h].tick, bb).res

\* C18: the task table is keyed by the action name alone: an on_tick made
\* while a task of the name is in flight returns Running and submits
\* nothing, its own arguments are discarded; the task's result is computed
\* from the arguments captured when it was submitted, and is returned to
\* the first on_tick of the name after completion, whatever arguments that
\* call carries.
C18_ResultOfCapturedArgs == [][C18_Step]_vars

C18_Witness ==
    /\ last.op = "on_tick" /\ last.obs = "Finished" /\ last.res = Success
    /\ ~ImplTick(last.impl, last.args, 0, bb).res.ok

(***************************************************************************)
(* The visualizer (gol/visualizer.rs): the ImportMap of a file and the     *)
(* graph built from a project.  Names of trees and aliases are strings;    *)
(* a map holds "" for a name it has no entry for.                          *)
(***************************************************************************)
NameDom == {"root", "a", "b", "x"}

\* ImportName
Id(v) == [kind |-> "Id", id |-> v, alias |-> ""]
Alias(id, alias) == [kind |-> "Alias", id |-> id, alias |-> alias]
WholeFile == [kind |-> "WholeFile", id |-> "", alias |-> ""]
\* one step of the iteration over file.imports: the imported file, an item
Import(file, item) == [file |-> file, item |-> item]

\* ImportMap::default and the error ImportMap::build returns instead of a map
EmptyMap ==
    [err |-> "", aliases |-> [n \in NameDom |-> ""],
     trees |-> [n \in NameDom |-> ""], files |-> {}]
MapErr(kind) == [EmptyMap EXCEPT !.err = kind]

RECURSIVE build_from(_, _, _)
\* ImportMap::build: the loop over the imports, from item i on
build_from(imports, i, map) ==
    IF i > Len(imports) THEN map
    ELSE LET file == imports[i].file
             item == imports[i].item
         IN CASE item.kind = "Id" ->
                   IF map.trees[item.id] \notin {"", file}
                   THEN MapErr("presented twice from several different files")
                   ELSE IF map.aliases[item.id] # ""
                   THEN MapErr("presented as alias")
                   ELSE build_from(imports, i + 1,
                                   [map EXCEPT !.trees[item.id] = file])
              [] item.kind = "Alias" ->
                   \* .filter(|id| id != id): the closure's parameter hides
                   \* the imported id, the entry is compared with itself
                   LET id == map.aliases[item.alias]
                   IN IF id # "" /\ id # id
                      THEN MapErr("already defined for another call")
                      ELSE build_from(imports, i + 1,
                                      [map EXCEPT !.aliases[item.alias] = item.id,
                                                  !.trees[item.id] = file])
              [] OTHER ->
                   build_from(imports, i + 1,
                              [map EXCEPT !.files = map.files \cup {file}])

build(imports) == build_from(imports, 1, EmptyMap)

\* the imports of a file, in the order the loop meets them: the items of one
\* imported file together, no item twice
ImportFiles == {"f1", "f2"}
ImportItems ==
    {Id(v) : v \in {"a", "b"}}
        \cup {Alias(v, al) : v \in {"a", "b"}, al \in {"a", "x"}}
        \cup {WholeFile}
ImportLists ==
    LET E == {Import(f, it) : f \in ImportFiles, it \in ImportItems}
    IN {l \in UNION {[1..n -> E] : n \in 0..MaxImports} :
           /\ \A i, j \in 1..Len(l) : l[i] = l[j] => i = j
           /\ \A i, j \in 1..Len(l) :
                 (i < j /\ l[i].file = l[j].file) =>
                     \A m \in i..j : l[m].file = l[i].file}

ImportInit ==
    /\ imp \in {[imports |-> l, done |-> FALSE, map |-> EmptyMap] :
                   l \in ImportLists}
    /\ viz = NoViz
    /\ bb = EmptyBB
    /\ last = NoCall
    /\ actions = [n \in Names |-> NoAction]
    /\ tasks = [n \in Names |-> 0]
    /\ pool = <<>>
    /\ thr = IdleThreads
    /\ mutex = 0
    /\ bb0 = EmptyBB
    /\ children = <<>>
    /\ cursor = 0
    /\ visited = <<>>

\* ImportMap::build(file)
Build ==
    /\ ~imp.done
    /\ imp' = [imp EXCEPT !.done = TRUE, !.map = build(imp.imports)]
    /\ UNCHANGED <<viz, bb, last, keeperVars, threadVars, treeVars>>

ImportNext == Build

SpecImport == ImportInit /\ [][ImportNext]_vars

(***************************************************************************)
(* Visualizer::build_graph on a project of two files.  The work loop pops  *)
(* a call, draws its node and the edge from its parent, and pushes the     *)
(* calls below it.  A stack item also carries the trees expanded above it  *)
(* (anc), and viz.cyc records that a tree was expanded below itself: both  *)
(* are observations, the code has no such fields.                          *)
(***************************************************************************)
VizFiles == {"main", "lib"}
DefNames == {"root", "a", "b"}

\* Call
Invocation(name) == [kind |-> "Invocation", name |-> name, calls |-> <<>>]
Lambda(calls) == [kind |-> "Lambda", name |-> "", calls |-> calls]
Decorator(call) == [kind |-> "Decorator", name |-> "", calls |-> <<call>>]

\* Tree: its calls.elems; NoTree is the None of definitions.get
Tree(calls) == [def |-> TRUE, calls |-> calls]
NoTree == [def |-> FALSE, calls |-> <<>>]

\* File and Project
File(definitions, imports) ==
    [definitions |-> definitions, imports |-> imports]
RootTrees ==
    {Tree(c) : c \in {<<Invocation("a")>>, <<Invocation("b")>>,
                      <<Invocation("x")>>,
                      <<Invocation("a"), Invocation("b")>>,
                      <<Lambda(<<Invocation("a"), Invocation("b")>>)>>,
                      <<Decorator(Invocation("b"))>>}}
Trees ==
    {NoTree} \cup {Tree(c) : c \in {<<>>, <<Invocation("a")>>,
                                     <<Invocation("b")>>}}
MainImports ==
    {<<>>, <<Import("lib", Id("a"))>>,
     <<Import("lib", Id("a")), Import("lib", Id("b"))>>,
     <<Import("lib", Alias("a", "x"))>>,
     <<Import("lib", WholeFile)>>,
     <<Import("lib", Alias("b", "a")), Import("lib", Id("a"))>>}
Projects ==
    {[main |-> <<"main", "root">>,
      files |-> [f \in VizFiles |->
                   IF f = "main"
                   THEN File([n \in DefNames |->
                                 IF n = "root" THEN r
                                 ELSE IF n = "a" THEN ma ELSE mb], i)
                   ELSE File([n \in DefNames |->
                                 IF n = "root" THEN NoTree
                                 ELSE IF n = "a" THEN la ELSE lb], <<>>)]] :
        r \in RootTrees, ma \in Trees, mb \in Trees, la \in Trees,
        lb \in Trees, i \in MainImports}

\* file.definitions.get(name)
definitions_get(file, name) ==
    IF name \in DefNames THEN file.definitions[name] ELSE NoTree

\* VizItem
VizItem(call, parent_id, file_name, anc) ==
    [call |-> call, parent_id |-> parent_id, file_name |-> file_name,
     anc |-> anc]

RECURSIVE push(_, _, _, _, _)
\* for call in &calls.elems { state.push(call, state.curr(), file.clone()) }
push(stack, calls, parent_id, file, anc) ==
    IF calls = <<>> THEN stack
    ELSE push(Append(stack, VizItem(calls[1], parent_id, file, anc)),
              Tail(calls), parent_id, file, anc)

\* the tree of an Invocation: where it was found (at), or not found
Found(f, name, tree) == [ok |-> TRUE, at |-> <<f, name>>, tree |-> tree]
NotFound == [ok |-> FALSE, at |-> <<"", "">>, tree |-> NoTree]
\* project.files.get(f).and_then(|f| f.definitions.get(name))
tree_in(project, f, name) ==
    IF f \in VizFiles /\ definitions_get(project.files[f], name).def
    THEN Found(f, name, definitions_get(project.files[f], name))
    ELSE NotFound

\* build_graph, Call::Invocation: the definition of the current file, else
\* the imported tree, else the aliased tree, else the whole-file imports;
\* file is the main file of the project
invocation_tree(project, file, file_name, import_map, name) ==
    IF definitions_get(project.files[file_name], name).def
    THEN Found(file_name, name, definitions_get(project.files[file_name], name))
    ELSE IF import_map.trees[name] # ""
    THEN tree_in(project, import_map.trees[name], name)
    ELSE IF import_map.aliases[name] # ""
    THEN LET id == import_map.aliases[name]
         IN IF import_map.trees[id] = "" THEN NotFound
            ELSE tree_in(project, import_map.trees[id], id)
    ELSE \* every imported file is looked up as `file`, and so is the tree
         IF import_map.files # {} THEN tree_in(project, file, file)
         ELSE NotFound

VizInit ==
    /\ viz \in {[pc |-> "init", project |-> p, gen |-> 0, stack |-> <<>>,
                  nodes |-> <<>>, edges |-> <<>>, cyc |-> FALSE] :
                    p \in Projects}
    /\ imp = NoImport
    /\ bb = EmptyBB
    /\ last = NoCall
    /\ actions = [n \in Names |-> NoAction]
    /\ tasks = [n \in Names |-> 0]
    /\ pool = <<>>
    /\ thr = IdleThreads
    /\ mutex = 0
    /\ bb0 = EmptyBB
    /\ children = <<>>
    /\ cursor = 0
    /\ visited = <<>>

VizFrame == UNCHANGED <<imp, bb, last, keeperVars, threadVars, treeVars>>

\* build_graph up to the loop: the root's node, id 1, and the root's calls
BuildGraphStart ==
    /\ viz.pc = "init"
    /\ LET file == viz.project.main[1]
           name == viz.project.main[2]
           root == definitions_get(viz.project.files[file], name)
           id == viz.gen + 1
       IN viz' = IF ~root.def THEN [viz EXCEPT !.pc = "err"]
                 ELSE [viz EXCEPT
                          !.pc = "loop", !.gen = id,
                          !.nodes = Append(viz.nodes, id),
                          !.stack = push(viz.stack, root.calls, id, file,
                                         {<<file, name>>})]
    /\ VizFrame

\* one iteration of `while let Some(item) = state.pop()`
BuildGraphStep ==
    /\ viz.pc = "loop" /\ viz.stack # <<>>
    /\ viz.gen < MaxGen
    /\ LET file == viz.project.main[1]
           item == viz.stack[Len(viz.stack)]
           rest == SubSeq(viz.stack, 1, Len(viz.stack) - 1)
           call == item.call
           curr_file == viz.project.files[item.file_name]
           import_map == build(curr_file.imports)
           id == viz.gen + 1
           found == invocation_tree(viz.project, file, item.file_name,
                                    import_map, call.name)
           drawn(stack, cyc) ==
               [viz EXCEPT !.gen = id, !.stack = stack, !.cyc = cyc,
                           !.nodes = Append(viz.nodes, id),
                           !.edges = Append(viz.edges, <<item.parent_id, id>>)]
           failed == [viz EXCEPT !.pc = "err", !.stack = rest]
       IN viz' =
            IF import_map.err # "" THEN failed
            ELSE CASE call.kind = "Lambda" ->
                        drawn(push(rest, call.calls, id, file, item.anc),
                              viz.cyc)
                   [] call.kind = "Invocation" ->
                        IF ~found.ok THEN failed
                        ELSE drawn(push(rest, found.tree.calls, id, file,
                                        item.anc \cup {found.at}),
                                   viz.cyc \/ found.at \in item.anc)
                   [] OTHER ->
                        drawn(push(rest, call.calls, id, file, item.anc),
                              viz.cyc)
    /\ VizFrame

\* the stack is empty: Ok(graph)
BuildGraphReturn ==
    /\ viz.pc = "loop" /\ viz.stack = <<>>
    /\ viz' = [viz EXCEPT !.pc = "ok"]
    /\ VizFrame

VizNext ==
    \/ BuildGraphStart
    \/ BuildGraphStep
    \/ BuildGraphReturn

SpecViz == VizInit /\ [][VizNext]_vars

(***************************************************************************)
(* Claims about ImportMap::build (SpecImport).                             *)
(***************************************************************************)
\* the same tree name is imported by id from two different files
C19_IdTwoFiles(l) ==
    \E i, j \in 1..Len(l) :
        /\ l[i].item.kind = "Id" /\ l[j].item.kind = "Id"
        /\ l[i].item.id = l[j].item.id /\ l[i].file # l[j].file
\* a name is imported by id after it was defined as an alias
C19_IdIsAlias(l) ==
    \E i, j \in 1..Len(l) :
        /\ i < j /\ l[i].item.kind = "Alias" /\ l[j].item.kind = "Id"
        /\ l[i].item.alias = l[j].item.id
\* the same alias is defined for two different tree names
C19_AliasTwoTrees(l) ==
    \E i, j \in 1..Len(l) :
        /\ l[i].item.kind = "Alias" /\ l[j].item.kind = "Alias"
        /\ l[i].item.alias = l[j].item.alias /\ l[i].item.id # l[j].item.id
\* a tree name is imported, by id or under an alias, from two different files
C19_TreeTwoFiles(l) ==
    \E i, j \in 1..Len(l) :
        /\ l[i].item.kind # "WholeFile" /\ l[j].item.kind # "WholeFile"
        /\ l[i].item.id = l[j].item.id /\ l[i].file # l[j].file
\* the map holds every imported id and aliased id with its file, and every
\* alias with its id
C19_Maps(l, m) ==
    \A i \in 1..Len(l) :
        /\ l[i].item.kind # "WholeFile" => m.trees[l[i].item.id] = l[i].file
        /\ l[i].item.kind = "Alias" => m.aliases[l[i].item.alias] = l[i].item.id

\* C19 (as claimed): ImportMap::build fails when the imports conflict (a tree
\* name imported by id from two different files, a name imported by id that
\* is already defined as an alias, an alias defined for two different tree
\* names); otherwise it succeeds, and the map holds every imported id and
\* aliased id with its file and every alias with its id.
C19_BuildFailsOnConflict ==
    imp.done =>
        LET l == imp.imports
        IN /\ (C19_IdTwoFiles(l) \/ C19_IdIsAlias(l) \/ C19_AliasTwoTrees(l))
                  => imp.map.err # ""
           /\ ~(C19_TreeTwoFiles(l) \/ C19_IdIsAlias(l) \/ C19_AliasTwoTrees(l))
                  => (imp.map.err = "" /\ C19_Maps(l, imp.map))

(***************************************************************************)
(* Claims about Visualizer::build_graph (SpecViz).  An invocation of the   *)
(* project resolves in the file whose tree makes it: to that file's own    *)
(* definition, else through that file's imports.  The project is recursive *)
(* when one of its trees invokes, directly or not, itself.                 *)
(***************************************************************************)
C20_Range(q) == {q[i] : i \in 1..Len(q)}
\* the names invoked by the calls, those inside a lambda or decorator too
C20_Invoked(calls) ==
    {c.name : c \in {d \in C20_Range(calls) : d.kind = "Invocation"}}
        \cup UNION {{e.name : e \in C20_Range(c.calls)} :
                       c \in {d \in C20_Range(calls) : d.kind # "Invocation"}}
\* the trees an invocation of name made in file f stands for
C20_Resolve(project, f, name) ==
    LET m == build(project.files[f].imports)
        at(r) == IF r.ok THEN {r.at} ELSE {}
    IN IF definitions_get(project.files[f], name).def THEN {<<f, name>>}
       ELSE IF m.err # "" THEN {}
       ELSE IF m.trees[name] # ""
       THEN at(tree_in(project, m.trees[name], name))
       ELSE IF m.aliases[name] # ""
       THEN at(tree_in(project, m.trees[m.aliases[name]], m.aliases[name]))
       ELSE UNION {at(tree_in(project, g, name)) : g \in m.files}
\* the trees the tree d invokes
C20_Calls(project, d) ==
    UNION {C20_Resolve(project, d[1], n) :
             n \in C20_Invoked(definitions_get(project.files[d[1]], d[2]).calls)}
RECURSIVE C20_Closure(_, _, _)
C20_Closure(project, S, k) ==
    IF k = 0 THEN S
    ELSE C20_Closure(project,
                     S \cup UNION {C20_Calls(project, d) : d \in S}, k - 1)
\* the trees invoked below d
C20_Below(project, d) ==
    C20_Closure(project, C20_Calls(project, d),
                Cardinality(VizFiles) * Cardinality(DefNames))
\* every invocation made by a tree of the project stands for a tree, and
\* no tree of the project is invoked below itself
C20_NonRecursive(project) ==
    \A d \in {e \in VizFiles \X DefNames :
                 definitions_get(project.files[e[1]], e[2]).def} :
        /\ d \notin C20_Below(project, d)
        /\ \A n \in C20_Invoked(definitions_get(project.files[d[1]],
                                                 d[2]).calls) :
              C20_Resolve(project, d[1], n) # {}

C20_Ids ==
    viz.pc \in {"loop", "ok"} =>
        /\ Len(viz.nodes) = viz.gen
        /\ \A i \in 1..Len(viz.nodes) : viz.nodes[i] = i
        /\ Len(viz.edges) = viz.gen - 1
        /\ \A j \in 1..Len(viz.edges) :
              viz.edges[j][2] = j + 1 /\ viz.edges[j][1] \in 1..j
        /\ \A i \in 1..Len(viz.stack) : viz.stack[i].parent_id \in 1..viz.gen

C20_Step ==
    (viz.pc = "loop" /\ viz'.pc = "loop" /\ viz' # viz) =>
        LET item == viz.stack[Len(viz.stack)]
        IN /\ viz'.gen = viz.gen + 1
           /\ viz'.nodes = Append(viz.nodes, viz'.gen)
           /\ viz'.edges = Append(viz.edges, <<item.parent_id, viz'.gen>>)

\* in a project that is not recursive no tree is expanded below itself: the
\* expansion of a call depends on the call alone, so a tree expanded below
\* itself is expanded again and again, and the loop does not end
C20_Ends ==
    viz.pc \in {"loop", "ok", "err"} =>
        (C20_NonRecursive(viz.project) => ~viz.cyc)

\* C20 (as claimed): build_graph gives every node statement a distinct id,
\* from a counter that grows by one from 1 for the root; every popped call
\* adds exactly one node and one edge, from its parent's id to its new id,
\* so that the graph is a tree rooted at 1; and the work loop ends for
\* every project whose invocations are not recursive.
C20_TreeAndTermination ==
    /\ []C20_Ids
    /\ []C20_Ends
    /\ [][C20_Step]_vars

=============================================================================
